---------------------------- MODULE Spec2Model ----------------------------
(***************************************************************************)
(* PriceMachine (src/project.py): price lists are read from a directory,   *)
(* each row is normalised into a record with a derived price per kg, the   *)
(* catalog is kept sorted by that value, searched by product text and      *)
(* exported as an HTML table.                                              *)
(*                                                                         *)
(* Text is a sequence of Unicode code points (Python str).  Python's None  *)
(* is the empty tuple and a present value x is the one-element tuple <<x>>.*)
(* A float is an exact rational <<n, d>> in lowest terms with d > 0.       *)
(***************************************************************************)
EXTENDS Integers, Sequences, FiniteSets, TLC

VARIABLES
    fs,      \* the files below directory_path, in os.walk order
    data,    \* PriceMachine.data
    op,      \* the method called last
    arg,     \* its argument
    raised,  \* whether that call let an exception out
    value,   \* what it returned
    out,     \* what it printed or wrote
    loads    \* number of load_prices calls so far

vars == <<fs, data, op, arg, raised, value, out, loads>>

-----------------------------------------------------------------------------
(* Optional values and text *)

None == <<>>
Some(x) == <<x>>
Val(o) == o[1]

\* str.lower() on the Latin and Cyrillic capitals
LowerChar(c) ==
    IF c >= 65 /\ c <= 90 THEN c + 32
    ELSE IF c >= 1040 /\ c <= 1071 THEN c + 32
    ELSE IF c >= 1024 /\ c <= 1039 THEN c + 80
    ELSE c

Lower(s) == [i \in 1..Len(s) |-> LowerChar(s[i])]

\* sub in s
Contains(s, sub) ==
    \E i \in 0..(Len(s) - Len(sub)) : SubSeq(s, i + 1, i + Len(sub)) = sub

\* s.endswith(suffix)
EndsWith(s, suffix) ==
    /\ Len(s) >= Len(suffix)
    /\ SubSeq(s, Len(s) - Len(suffix) + 1, Len(s)) = suffix

\* str(x) of a str or None
Str(o) == IF o = None THEN <<78, 111, 110, 101>> ELSE Val(o)  \* "None"

RECURSIVE IntStr(_)
\* str(n) of a natural number
IntStr(n) == IF n < 10 THEN <<48 + n>> ELSE IntStr(n \div 10) \o <<48 + (n % 10)>>

-----------------------------------------------------------------------------
(* Floats as exact rationals *)

Abs(n) == IF n < 0 THEN -n ELSE n

RECURSIVE Gcd(_, _)
Gcd(a, b) == IF b = 0 THEN a ELSE Gcd(b, a % b)

Rat(n, d) ==
    LET g == Gcd(Abs(n), Abs(d))
        s == IF d < 0 THEN -1 ELSE 1
    IN  <<(s * n) \div g, (s * d) \div g>>

RatDiv(a, b) == Rat(a[1] * b[2], a[2] * b[1])
RatLess(a, b) == a[1] * b[2] < b[1] * a[2]
RatPositive(a) == a[1] > 0

RECURSIVE Pow10(_)
Pow10(k) == IF k = 0 THEN 1 ELSE 10 * Pow10(k - 1)

IsSpace(c) == c \in {32, 9}
IsDigit(c) == c >= 48 /\ c <= 57

RECURSIVE LStrip(_)
LStrip(s) == IF s # <<>> /\ IsSpace(Head(s)) THEN LStrip(Tail(s)) ELSE s

RECURSIVE RStrip(_)
RStrip(s) ==
    IF s # <<>> /\ IsSpace(s[Len(s)]) THEN RStrip(SubSeq(s, 1, Len(s) - 1)) ELSE s

RECURSIVE DigitsValue(_)
\* the integer written by the digits of s, other characters skipped
DigitsValue(s) ==
    IF s = <<>> THEN 0
    ELSE LET c == s[Len(s)]
             rest == DigitsValue(SubSeq(s, 1, Len(s) - 1))
         IN  IF IsDigit(c) THEN 10 * rest + (c - 48) ELSE rest

\* float(s): None stands for ValueError.  Surrounding blanks are stripped, then
\* an optional sign, digits and at most one decimal point are accepted.  The
\* exponent, "inf", "nan" and "_" forms Python also accepts use letters that no
\* cell of the model contains.
Float(s) ==
    LET t == RStrip(LStrip(s))
        signed == t # <<>> /\ Head(t) \in {43, 45}
        body == IF signed THEN Tail(t) ELSE t
        dots == {i \in 1..Len(body) : body[i] = 46}
        digits == {i \in 1..Len(body) : IsDigit(body[i])}
        wellFormed == /\ digits # {}
                      /\ Cardinality(dots) <= 1
                      /\ digits \cup dots = 1..Len(body)
        frac == IF dots = {} THEN 0
                ELSE Len(body) - (CHOOSE i \in dots : TRUE)
        n == DigitsValue(body)
    IN  IF ~wellFormed THEN None
        ELSE Some(Rat(IF signed /\ Head(t) = 45 THEN -n ELSE n, Pow10(frac)))

-----------------------------------------------------------------------------
(* _search_product_price_weight *)

\* товар, название, наименование, продукт
product_keywords ==
    <<<<1090, 1086, 1074, 1072, 1088>>, <<1085, 1072, 1079, 1074, 1072, 1085, 1080, 1077>>, <<1085, 1072, 1080, 1084, 1077, 1085, 1086, 1074, 1072, 1085, 1080, 1077>>, <<1087, 1088, 1086, 1076, 1091, 1082, 1090>>>>  \* "товар", "название", "наименование", "продукт"
\* розница, цена
price_keywords == <<<<1088, 1086, 1079, 1085, 1080, 1094, 1072>>, <<1094, 1077, 1085, 1072>>>>  \* "розница", "цена"
\* вес, масса, фасовка
weight_keywords == <<<<1074, 1077, 1089>>, <<1084, 1072, 1089, 1089, 1072>>, <<1092, 1072, 1089, 1086, 1074, 1082, 1072>>>>  \* "вес", "масса", "фасовка"

\* any(keyword in header_lower for keyword in keywords)
AnyKeyword(header_lower, keywords) ==
    \E k \in 1..Len(keywords) : Contains(header_lower, keywords[k])

\* SearchStep as it would be if a role, once assigned, were never reassigned
SearchStepFirstOnly(idx, i, header) ==
    LET header_lower == Lower(header)
    IN  [product |-> IF idx.product = None /\ AnyKeyword(header_lower, product_keywords)
                     THEN Some(i) ELSE idx.product,
         price   |-> IF idx.price = None /\ AnyKeyword(header_lower, price_keywords)
                     THEN Some(i) ELSE idx.price,
         weight  |-> IF idx.weight = None /\ AnyKeyword(header_lower, weight_keywords)
                     THEN Some(i) ELSE idx.weight]

\* one pass of the loop body for header number i (0-based) on the indices so far
SearchStep(idx, i, header) ==
    LET header_lower == Lower(header)
    IN  [product |-> IF AnyKeyword(header_lower, product_keywords)
                     THEN Some(i) ELSE idx.product,
         price   |-> IF AnyKeyword(header_lower, price_keywords)
                     THEN Some(i) ELSE idx.price,
         weight  |-> IF AnyKeyword(header_lower, weight_keywords)
                     THEN Some(i) ELSE idx.weight]

RECURSIVE SearchLoop(_, _, _)
\* for i, header in enumerate(headers), from header number i on
SearchLoop(headers, i, idx) ==
    IF i >= Len(headers) THEN idx
    ELSE SearchLoop(headers, i + 1, SearchStep(idx, i, headers[i + 1]))

search_product_price_weight(headers) ==
    SearchLoop(headers, 0, [product |-> None, price |-> None, weight |-> None])


-----------------------------------------------------------------------------
(* Files.  A file is [root, name, readable, lines]: root and name as os.walk  *)
(* yields them, readable FALSE when open() fails, lines what csv.reader      *)
(* yields: a line is [ok |-> TRUE, cells |-> <<text, ...>>], or ok FALSE for *)
(* a line at which reading raises (bytes that are not UTF-8, a csv.Error).   *)

Line(cells) == [ok |-> TRUE, cells |-> cells]
BadLine == [ok |-> FALSE, cells |-> <<>>]

\* os.path.join(root, file)
PathJoin(root, name) == root \o <<47>> \o name

\* os.path.basename(path)
Basename(path) ==
    LET slashes == {i \in 1..Len(path) : path[i] = 47}
        last == IF slashes = {} THEN 0
                ELSE CHOOSE i \in slashes : \A j \in slashes : j <= i
    IN  SubSeq(path, last + 1, Len(path))

\* 'price' in file.lower()
IsPriceFile(file) == Contains(Lower(file.name), <<112, 114, 105, 99, 101>>)  \* "price"

\* valid_files: the files os.walk lists whose name holds "price", in order
ValidFiles(files) == SelectSeq(files, IsPriceFile)

\* row[name] of the dict csv.DictReader builds from the cells of a line: the
\* last column with that header, None (restval) where the line has no such cell
RowGet(headers, cells, name) ==
    LET j == CHOOSE i \in 1..Len(headers) :
                 /\ headers[i] = name
                 /\ \A k \in 1..Len(headers) : headers[k] = name => k <= i
    IN  IF j <= Len(cells) THEN Some(cells[j]) ELSE None

\* bool(x) of a str or None
TruthyText(o) == o # None /\ Val(o) # <<>>

\* bool(x) of a float or None
TruthyFloat(o) == o # None /\ Val(o)[1] # 0

\* weight_kg: float(weight) if the cell is non-empty and numeric, else None
WeightKg(weight) ==
    IF TruthyText(weight) THEN Float(Val(weight)) ELSE None

\* PricePerKg as it would be without the weight_kg > 0 test
PricePerKgAnySign(price, weight_kg) ==
    IF ~TruthyFloat(weight_kg) THEN [raised |-> FALSE, v |-> None]
    ELSE IF price = None \/ Float(Val(price)) = None
         THEN [raised |-> TRUE, v |-> None]
         ELSE [raised |-> FALSE,
               v |-> Some(RatDiv(Val(Float(Val(price))), Val(weight_kg)))]

\* price_per_kg; raised when float(price) raises (ValueError for text that is
\* no number, TypeError for None)
PricePerKg(price, weight_kg) ==
    IF ~TruthyFloat(weight_kg) THEN [raised |-> FALSE, v |-> None]
    ELSE IF ~RatPositive(Val(weight_kg)) THEN [raised |-> FALSE, v |-> None]
    ELSE IF price = None \/ Float(Val(price)) = None
         THEN [raised |-> TRUE, v |-> None]
         ELSE [raised |-> FALSE,
               v |-> Some(RatDiv(Val(Float(Val(price))), Val(weight_kg)))]

\* the body of "for row in reader": None when it raises, else the record
RowRecord(headers, idx, cells, file_path) ==
    LET product == RowGet(headers, cells, headers[Val(idx.product) + 1])
        price == RowGet(headers, cells, headers[Val(idx.price) + 1])
        weight == IF idx.weight # None
                  THEN RowGet(headers, cells, headers[Val(idx.weight) + 1])
                  ELSE None
        weight_kg == WeightKg(weight)
        ppk == PricePerKg(price, weight_kg)
    IN  IF ppk.raised THEN None
        ELSE Some([product |-> product,
                   price |-> price,
                   weight |-> weight_kg,
                   file |-> Basename(file_path),
                   price_per_kg |-> ppk.v])

RECURSIVE RowLoop(_, _, _, _, _, _)
\* for row in reader, from line k on; DictReader skips lines without cells
RowLoop(headers, idx, lines, k, file_path, acc) ==
    IF k > Len(lines) THEN [data |-> acc, failed |-> FALSE]
    ELSE IF ~lines[k].ok THEN [data |-> acc, failed |-> TRUE]
    ELSE IF lines[k].cells = <<>>
         THEN RowLoop(headers, idx, lines, k + 1, file_path, acc)
    ELSE LET rec == RowRecord(headers, idx, lines[k].cells, file_path)
         IN  IF rec = None THEN [data |-> acc, failed |-> TRUE]
             ELSE RowLoop(headers, idx, lines, k + 1, file_path,
                          Append(acc, Val(rec)))

\* HeadersResolved as it would be with "or" for "and"
HeadersResolvedEither(idx) == idx.product # None \/ idx.price # None

\* product_idx is not None and price_idx is not None
HeadersResolved(idx) == idx.product # None /\ idx.price # None

\* the try block for one file: the catalog after it, and whether it raised
ProcessFile(acc, file) ==
    LET file_path == PathJoin(file.root, file.name)
    IN  IF ~EndsWith(file_path, <<46, 99, 115, 118>>) THEN [data |-> acc, failed |-> FALSE]  \* ".csv"
        ELSE IF ~file.readable THEN [data |-> acc, failed |-> TRUE]
        \* reader.fieldnames is None for a file without lines: enumerate(None)
        ELSE IF file.lines = <<>> THEN [data |-> acc, failed |-> TRUE]
        ELSE IF ~file.lines[1].ok THEN [data |-> acc, failed |-> TRUE]
        ELSE LET headers == file.lines[1].cells
                 idx == search_product_price_weight(headers)
             IN  IF ~HeadersResolved(idx) THEN [data |-> acc, failed |-> FALSE]
                 \* headers[None] is a TypeError
                 ELSE IF idx.product = None \/ idx.price = None
                      THEN [data |-> acc, failed |-> TRUE]
                 ELSE RowLoop(headers, idx, file.lines, 2, file_path, acc)

\* TryFile as it would be without the except clause
TryFileNoExcept(st, file) ==
    LET r == ProcessFile(st.data, file)
    IN  [data |-> r.data, printed |-> st.printed, raised |-> r.failed]

\* try: ... except Exception as e: print(...) for one file.  st is the state of
\* the loop: the catalog, the lines printed, whether an exception got out
TryFile(st, file) ==
    LET r == ProcessFile(st.data, file)
    IN  [data |-> r.data,
         printed |-> IF r.failed
                     THEN Append(st.printed, PathJoin(file.root, file.name))
                     ELSE st.printed,
         raised |-> FALSE]

RECURSIVE FileLoop(_, _, _)
\* for file_path in valid_files, from file k on
FileLoop(valid_files, k, st) ==
    IF k > Len(valid_files) \/ st.raised THEN st
    ELSE FileLoop(valid_files, k + 1, TryFile(st, valid_files[k]))

\* the sort key: x['price_per_kg'] if x['price_per_kg'] else float('inf'),
\* None standing for inf
SortKey(x) == IF TruthyFloat(x.price_per_kg) THEN x.price_per_kg ELSE None

\* key a < key b
KeyLess(a, b) == a # None /\ (b = None \/ RatLess(Val(a), Val(b)))

RECURSIVE Insert(_, _)
\* x put after the last element whose key is not greater than its own
Insert(sorted, x) ==
    IF sorted = <<>> THEN <<x>>
    ELSE LET last == sorted[Len(sorted)]
         IN  IF KeyLess(SortKey(x), SortKey(last))
             THEN Append(Insert(SubSeq(sorted, 1, Len(sorted) - 1), x), last)
             ELSE Append(sorted, x)

RECURSIVE Sorted(_)
\* sorted(items, key=...): stable
Sorted(items) ==
    IF items = <<>> THEN <<>>
    ELSE Insert(Sorted(SubSeq(items, 1, Len(items) - 1)), items[Len(items)])

MaxLoads == 2

\* the directory the program is started on
DirectoryPath == <<100>>  \* "d"

\* pm.load_prices(directory_path)
LoadPrices ==
    /\ loads < MaxLoads
    /\ LET st == FileLoop(ValidFiles(fs), 1,
                          [data |-> data, printed |-> <<>>, raised |-> FALSE])
       IN  /\ data' = IF st.raised THEN st.data ELSE Sorted(st.data)
           /\ raised' = st.raised
           /\ out' = st.printed
    /\ op' = "load_prices"
    /\ arg' = DirectoryPath
    /\ value' = None
    /\ loads' = loads + 1
    /\ UNCHANGED fs

-----------------------------------------------------------------------------
(* find_text *)

\* the condition of the comprehension for one item: "raise" when
\* item['product'].lower() is reached with product None (AttributeError)
FindMatch(item, text) ==
    IF ~Contains(Lower(Str(item.product)), Lower(text)) THEN "no"
    ELSE IF item.product = None THEN "raise"
    ELSE IF Contains(Lower(Val(item.product)), <<1085, 1072, 1080, 1084, 1077, 1085, 1086, 1074, 1072, 1085, 1080, 1077>>) THEN "no"  \* "наименование"
    ELSE "yes"

\* results = [item for item in self.data if ...], then sorted; None when the
\* comprehension raises
FindResults(items, text) ==
    IF \E i \in 1..Len(items) : FindMatch(items[i], text) = "raise" THEN None
    ELSE Some(Sorted(SelectSeq(items, LAMBDA item : FindMatch(item, text) = "yes")))

\* the empty query, СЫР, наименование
Queries == {<<>>, <<1057, 1067, 1056>>, <<1085, 1072, 1080, 1084, 1077, 1085, 1086, 1074, 1072, 1085, 1080, 1077>>}  \* "СЫР", "наименование"

\* pm.find_text(text)
FindText(text) ==
    /\ LET r == FindResults(data, text)
       IN  /\ raised' = (r = None)
           /\ value' = IF r = None THEN None ELSE Val(r)
    /\ op' = "find_text"
    /\ arg' = text
    /\ out' = <<>>
    /\ UNCHANGED <<fs, data, loads>>

-----------------------------------------------------------------------------
(* export_to_html *)

\* two decimal digits
TwoDigits(n) == <<48 + (n \div 10), 48 + (n % 10)>>

\* f"{x:.2f}": the value rounded to hundredths, ties to even (the rounding of
\* the exact rational; the float nearest to it can fall on the other side of a
\* tie)
Format2f(x) ==
    LET a == Abs(x[1]) * 100
        q == a \div x[2]
        r == a % x[2]
        h == IF 2 * r > x[2] \/ (2 * r = x[2] /\ q % 2 = 1) THEN q + 1 ELSE q
    IN  (IF x[1] < 0 THEN <<45>> ELSE <<>>)
        \o IntStr(h \div 100) \o <<46>> \o TwoDigits(h % 100)

RECURSIVE FractionDigits(_, _)
\* the decimal digits of r / d after the point, for a d that divides a power of 10
FractionDigits(r, d) ==
    IF r = 0 THEN <<>>
    ELSE <<48 + ((10 * r) \div d)>> \o FractionDigits((10 * r) % d, d)

\* str(x) of a float or None: the shortest decimal, "2.0" for 2 (weights come
\* from decimal text, so their decimals end)
StrFloat(o) ==
    IF o = None THEN <<78, 111, 110, 101>>  \* "None"
    ELSE LET x == Val(o)
             a == Abs(x[1])
             f == FractionDigits(a % x[2], x[2])
         IN  (IF x[1] < 0 THEN <<45>> ELSE <<>>)
             \o IntStr(a \div x[2]) \o <<46>> \o (IF f = <<>> THEN <<48>> ELSE f)

\* price_per_kg_formatted
PricePerKgFormatted(price_per_kg) ==
    IF TruthyFloat(price_per_kg) THEN Format2f(Val(price_per_kg)) ELSE <<78, 47, 65>>  \* "N/A"

\* the cells of the <tr> written for item number idx (1-based)
HtmlRow(idx, item) ==
    [idx |-> IntStr(idx),
     product |-> Str(item.product),
     price |-> Str(item.price),
     weight |-> StrFloat(item.weight),
     file |-> item.file,
     price_per_kg |-> PricePerKgFormatted(item.price_per_kg)]

\* the rows of the table, in the order written
HtmlRows(items) ==
    LET sorted_data == Sorted(items)
    IN  [i \in 1..Len(sorted_data) |-> HtmlRow(i, sorted_data[i])]

\* pm.export_to_html(fname); writable FALSE when open(fname, 'w') fails
ExportToHtml(writable) ==
    /\ raised' = ~writable
    /\ out' = IF writable THEN HtmlRows(data) ELSE <<>>
    /\ op' = "export_to_html"
    /\ arg' = <<111, 117, 116, 112, 117, 116, 46, 104, 116, 109, 108>>  \* "output.html"
    /\ value' = None
    /\ UNCHANGED <<fs, data, loads>>

-----------------------------------------------------------------------------
(* Inputs *)

\* a readable file of the directory with the given name and lines
File(name, lines) ==
    [root |-> DirectoryPath, name |-> name, readable |-> TRUE, lines |-> lines]

\* the lines whose cell number i is drawn from cols[i], of every length from 1
RowsOf(cols) ==
    UNION {{r \in [1..k -> UNION {cols[i] : i \in 1..Len(cols)}] :
               \A i \in 1..k : r[i] \in cols[i]} : k \in 1..Len(cols)}

\* Сыр
ProductCells == {<<1057, 1099, 1088>>, <<>>}  \* "Сыр"
\* 1,5 is no number for float()
PriceCells == {<<52>>, <<49, 44, 53>>, <<>>}  \* "4", "1,5"
\* кг
WeightCells == {<<48, 46, 53>>, <<48>>, <<45, 50>>, <<1082, 1075>>, <<>>}  \* "0.5", "0", "-2", "кг"

\* Товар, Цена, Вес: all three roles.  Цена, Название: no weight column, and
\* the product in the last column
Layouts ==
    {[headers |-> <<<<1058, 1086, 1074, 1072, 1088>>, <<1062, 1077, 1085, 1072>>, <<1042, 1077, 1089>>>>,  \* "Товар", "Цена", "Вес"
      cols |-> <<ProductCells, PriceCells, WeightCells>>],
     [headers |-> <<<<1062, 1077, 1085, 1072>>, <<1053, 1072, 1079, 1074, 1072, 1085, 1080, 1077>>>>,  \* "Цена", "Название"
      cols |-> <<PriceCells, ProductCells>>]}

MaxRows == 2

\* the price list price.csv with the given header row and rows
PriceList(headers, rows) ==
    File(<<112, 114, 105, 99, 101, 46, 99, 115, 118>>,  \* "price.csv"
         <<Line(headers)>> \o [i \in 1..Len(rows) |-> Line(rows[i])])

InitWith(files) ==
    /\ fs = files
    /\ data = <<>>
    /\ op = "none"
    /\ arg = None
    /\ raised = FALSE
    /\ value = None
    /\ out = <<>>
    /\ loads = 0

\* one price list of at most MaxRows rows
InitRows ==
    \E l \in Layouts : \E n \in 0..MaxRows : \E rows \in [1..n -> RowsOf(l.cols)] :
        InitWith(<<PriceList(l.headers, rows)>>)

NextLoad == LoadPrices

SpecRows == InitRows /\ [][NextLoad]_vars

-----------------------------------------------------------------------------
(* Several files, some of which fail *)

\* a directory of its own for the file os.walk lists as number i
SubDir(i) == DirectoryPath \o <<47>> \o IntStr(i)

\* price.csv, My_PRICE.csv (found: the test lower-cases the name), prices.txt
\* (found, then skipped as no .csv), data.csv (not found)
FileNames == {<<112, 114, 105, 99, 101, 46, 99, 115, 118>>, <<77, 121, 95, 80, 82, 73, 67, 69, 46, 99, 115, 118>>, <<112, 114, 105, 99, 101, 115, 46, 116, 120, 116>>, <<100, 97, 116, 97, 46, 99, 115, 118>>}  \* "price.csv", "My_PRICE.csv", "prices.txt", "data.csv"

\* Товар, Цена, Вес / Сыр, 4, 2 / Мёд, 6, (empty)
LinesGood ==
    <<Line(<<<<1058, 1086, 1074, 1072, 1088>>, <<1062, 1077, 1085, 1072>>, <<1042, 1077, 1089>>>>),  \* "Товар", "Цена", "Вес"
      Line(<<<<1057, 1099, 1088>>, <<52>>, <<50>>>>),  \* "Сыр", "4", "2"
      Line(<<<<1052, 1105, 1076>>, <<54>>, <<>>>>)>>  \* "Мёд", "6"
\* no price column
LinesNoPrice ==
    <<Line(<<<<1058, 1086, 1074, 1072, 1088>>, <<1042, 1077, 1089>>>>), Line(<<<<1057, 1099, 1088>>, <<50>>>>)>>  \* "Товар", "Вес", "Сыр", "2"
\* no product column, and a line that cannot be read
LinesNoProduct ==
    <<Line(<<<<1050, 1086, 1076>>, <<1062, 1077, 1085, 1072>>>>), Line(<<<<49>>, <<52>>>>), BadLine>>  \* "Код", "Цена", "1", "4"
\* no weight column
LinesNoWeight ==
    <<Line(<<<<1053, 1072, 1079, 1074, 1072, 1085, 1080, 1077>>, <<1056, 1086, 1079, 1085, 1080, 1094, 1072>>>>),  \* "Название", "Розница"
      Line(<<<<1057, 1099, 1088>>, <<52>>>>),  \* "Сыр", "4"
      Line(<<<<1052, 1105, 1076>>, <<49, 44, 53>>>>)>>  \* "Мёд", "1,5"
\* a line that cannot be read between two rows
LinesBadLine ==
    <<Line(<<<<1058, 1086, 1074, 1072, 1088>>, <<1062, 1077, 1085, 1072>>, <<1042, 1077, 1089>>>>),  \* "Товар", "Цена", "Вес"
      Line(<<<<1057, 1099, 1088>>, <<52>>, <<50>>>>),  \* "Сыр", "4", "2"
      BadLine,
      Line(<<<<1052, 1105, 1076>>, <<54>>, <<50>>>>)>>  \* "Мёд", "6", "2"
\* a price that is no number beside a weight
LinesBadPrice ==
    <<Line(<<<<1058, 1086, 1074, 1072, 1088>>, <<1062, 1077, 1085, 1072>>, <<1042, 1077, 1089>>>>),  \* "Товар", "Цена", "Вес"
      Line(<<<<1057, 1099, 1088>>, <<49, 44, 53>>, <<50>>>>),  \* "Сыр", "1,5", "2"
      Line(<<<<1052, 1105, 1076>>, <<54>>, <<50>>>>)>>  \* "Мёд", "6", "2"

FileContents ==
    {[readable |-> TRUE, lines |-> l] :
        l \in {LinesGood, LinesNoPrice, LinesNoProduct, LinesNoWeight,
               LinesBadLine, LinesBadPrice, <<>>, <<BadLine>>}}
    \cup {[readable |-> FALSE, lines |-> <<>>]}

MaxFiles == 2

\* a directory of at most MaxFiles files, in every order
InitFiles ==
    \E n \in 0..MaxFiles : \E d \in [1..n -> FileNames \X FileContents] :
        InitWith([i \in 1..n |->
                     [root |-> SubDir(i), name |-> d[i][1],
                      readable |-> d[i][2].readable, lines |-> d[i][2].lines]])

SpecFiles == InitFiles /\ [][NextLoad]_vars

-----------------------------------------------------------------------------
(* The whole program on one price list *)

\* Цена, Вес, Товар; the products Сыр and Наименование
CatalogLayout ==
    [headers |-> <<<<1062, 1077, 1085, 1072>>, <<1042, 1077, 1089>>, <<1058, 1086, 1074, 1072, 1088>>>>,  \* "Цена", "Вес", "Товар"
     cols |-> <<{<<52>>, <<48>>, <<45, 52>>},  \* "4", "0", "-4"
                {<<50>>, <<>>},  \* "2"
                {<<1057, 1099, 1088>>, <<1053, 1072, 1080, 1084, 1077, 1085, 1086, 1074, 1072, 1085, 1080, 1077>>}>>]  \* "Сыр", "Наименование"

Init ==
    \E n \in 0..MaxRows : \E rows \in [1..n -> RowsOf(CatalogLayout.cols)] :
        InitWith(<<PriceList(CatalogLayout.headers, rows)>>)

Next ==
    \/ LoadPrices
    \/ \E text \in Queries : FindText(text)
    \/ \E writable \in BOOLEAN : ExportToHtml(writable)

Spec == Init /\ [][Next]_vars

-----------------------------------------------------------------------------
(* The header classifier on its own *)

MaxHeaders == 3

\* Товар, НАЗВАНИЕ, Цена, розница, Вес кг, Код, Цена товара
HeaderNames ==
    {<<1058, 1086, 1074, 1072, 1088>>, <<1053, 1040, 1047, 1042, 1040, 1053, 1048, 1045>>, <<1062, 1077, 1085, 1072>>, <<1088, 1086, 1079, 1085, 1080, 1094, 1072>>, <<1042, 1077, 1089, 32, 1082, 1075>>, <<1050, 1086, 1076>>,  \* "Товар", "НАЗВАНИЕ", "Цена", "розница", "Вес кг", "Код"
     <<1062, 1077, 1085, 1072, 32, 1090, 1086, 1074, 1072, 1088, 1072>>}  \* "Цена товара"

InitSearch ==
    /\ fs = <<>>
    /\ data = <<>>
    /\ op = "none"
    /\ \E n \in 0..MaxHeaders : arg \in [1..n -> HeaderNames]
    /\ raised = FALSE
    /\ value = None
    /\ out = <<>>
    /\ loads = 0

\* pm._search_product_price_weight(arg)
SearchCall ==
    /\ op' = "_search_product_price_weight"
    /\ value' = search_product_price_weight(arg)
    /\ raised' = FALSE
    /\ UNCHANGED <<fs, data, arg, out, loads>>

NextSearch == SearchCall

SpecSearch == InitSearch /\ [][NextSearch]_vars

-----------------------------------------------------------------------------
(* Properties.  The helpers below describe a file from its lines alone. *)

SetMax(M) == CHOOSE i \in M : \A j \in M : j <= i
SetMin(M) == CHOOSE i \in M : \A j \in M : i <= j

\* the columns of a header row whose header holds a keyword of the role
Matching(headers, keywords) ==
    {i \in 1..Len(headers) : AnyKeyword(Lower(headers[i]), keywords)}

FirstOf(M) == IF M = {} THEN None ELSE Some(SetMin(M) - 1)
LastOf(M) == IF M = {} THEN None ELSE Some(SetMax(M) - 1)

\* the rows of a file: its lines after the header that hold cells
RowsIn(f) == {k \in 2..Len(f.lines) : f.lines[k].ok /\ f.lines[k].cells # <<>>}

\* the cell of line k of f in the column of a role, None without column or cell
CellOf(f, k, keywords) ==
    LET M == Matching(f.lines[1].cells, keywords)
    IN  IF M = {} \/ SetMax(M) > Len(f.lines[k].cells) THEN None
        ELSE Some(f.lines[k].cells[SetMax(M)])

IsNumber(cell) == cell # None /\ Float(Val(cell)) # None

\* the weight cell of the row is a number above zero
HasWeight(f, k) ==
    LET w == CellOf(f, k, weight_keywords)
    IN  IsNumber(w) /\ Val(Float(Val(w)))[1] > 0

\* the number of catalog records that name the file
CountFile(name) == Cardinality({i \in 1..Len(data) : data[i].file = name})

C2_BadPriceKeepsRow ==
    op = "load_prices" =>
        LET f == fs[1]
        IN  /\ Len(data) = loads * Cardinality(RowsIn(f))
            /\ \A k \in RowsIn(f) :
                   ~IsNumber(CellOf(f, k, price_keywords)) =>
                       \E i \in 1..Len(data) :
                           /\ data[i].product = CellOf(f, k, product_keywords)
                           /\ data[i].price = CellOf(f, k, price_keywords)
                           /\ data[i].price_per_kg = None

\* C3: a record has price_per_kg exactly when its weight is a number above
\* zero and its price is a number, and then price_per_kg * weight = price; a
\* file none of whose rows pairs a weight above zero with a price that is no
\* number (so also one whose weights are "0", negative, empty or missing) is
\* read to its end without a fault.
C3_PricePerKgIffValid ==
    /\ \A i \in 1..Len(data) :
          LET r == data[i]
              valid == /\ r.weight # None
                       /\ Val(r.weight)[1] > 0
                       /\ IsNumber(r.price)
          IN  /\ r.price_per_kg # None <=> valid
              /\ valid =>
                    LET q == Val(r.price_per_kg)
                        w == Val(r.weight)
                        p == Val(Float(Val(r.price)))
                    IN  q[1] * w[1] * p[2] = p[1] * q[2] * w[2]
    /\ op = "load_prices" =>
          LET f == fs[1]
          IN  /\ \A i \in 1..Len(data) :
                    \E k \in RowsIn(f) :
                        /\ data[i].product = CellOf(f, k, product_keywords)
                        /\ data[i].price = CellOf(f, k, price_keywords)
                        /\ data[i].weight =
                              (IF IsNumber(CellOf(f, k, weight_keywords))
                               THEN Float(Val(CellOf(f, k, weight_keywords)))
                               ELSE None)
              /\ (\A k \in RowsIn(f) :
                     HasWeight(f, k) => IsNumber(CellOf(f, k, price_keywords)))
                 => /\ out = <<>>
                    /\ Len(data) = loads * Cardinality(RowsIn(f))

\* C3 witness: the catalog holds a record with a price per kg and a record
\* whose weight is zero or negative.
C3_ZeroWeightLoaded ==
    /\ op = "load_prices"
    /\ \E i \in 1..Len(data) : data[i].price_per_kg # None
    /\ \E i \in 1..Len(data) :
          /\ data[i].weight # None
          /\ Val(data[i].weight)[1] <= 0
          /\ data[i].price_per_kg = None

\* C4 as stated: no record of the catalog has an empty or absent product or an
\* empty or absent price.
C4_ProductAndPricePresent ==
    \A i \in 1..Len(data) :
        TruthyText(data[i].product) /\ TruthyText(data[i].price)

\* C5 as stated (its order part): after load_prices nothing has escaped, no
\* record without price_per_kg stands before one with it, and the records with
\* price_per_kg ascend.
C5_SortedAbsentLast ==
    op = "load_prices" =>
        /\ ~raised
        /\ \A i, j \in 1..Len(data) :
              i < j =>
                  /\ data[i].price_per_kg = None => data[j].price_per_kg = None
                  /\ (data[i].price_per_kg # None /\ data[j].price_per_kg # None)
                        => ~RatLess(Val(data[j].price_per_kg),
                                    Val(data[i].price_per_kg))

\* a product that holds the query and does not hold "наименование", case aside
C6Wanted(item, text) ==
    /\ item.product # None
    /\ Contains(Lower(Val(item.product)), Lower(text))
    /\ ~Contains(Lower(Val(item.product)), <<1085, 1072, 1080, 1084, 1077, 1085, 1086, 1074, 1072, 1085, 1080, 1077>>)  \* "наименование"

\* C6 as stated: find_text returns exactly the records whose product holds the
\* query and not "наименование", in catalog order.
C6_FindExact ==
    op = "find_text" =>
        /\ ~raised
        /\ value = SelectSeq(data, LAMBDA item : C6Wanted(item, arg))

\* C9 as stated: export_to_html writes one row per record in catalog order,
\* numbered from 1, with "N/A" for price_per_kg exactly when it is absent.
C9_ExportRows ==
    (op = "export_to_html" /\ ~raised) =>
        /\ Len(out) = Len(data)
        /\ \A i \in 1..Len(out) :
              /\ out[i].idx = IntStr(i)
              /\ out[i].product = Str(data[i].product)
              /\ out[i].price_per_kg = <<78, 47, 65>> <=> data[i].price_per_kg = None  \* "N/A"

\* C10 as stated: a find_text call raises nothing and leaves the catalog as it
\* was.
C10_FindNeverRaises ==
    [][op' = "find_text" => (~raised' /\ data' = data)]_vars

\* the file is found by the walk and read as CSV
Selected(f) == IsPriceFile(f) /\ EndsWith(f.name, <<46, 99, 115, 118>>)  \* ".csv"

\* the file opens and its header line is read
HeaderRead(f) == f.readable /\ f.lines # <<>> /\ f.lines[1].ok

\* a header matches the product role and a header matches the price role
Resolved(f) ==
    /\ Matching(f.lines[1].cells, product_keywords) # {}
    /\ Matching(f.lines[1].cells, price_keywords) # {}

\* every line of the file is read and no row pairs a weight with a bad price
Clean(f) ==
    /\ HeaderRead(f)
    /\ \A k \in 1..Len(f.lines) : f.lines[k].ok
    /\ \A k \in RowsIn(f) : HasWeight(f, k) => IsNumber(CellOf(f, k, price_keywords))

\* the file cannot be opened, has no header line, or has an unreadable line
Failing(f) ==
    \/ ~HeaderRead(f)
    \/ Resolved(f) /\ \E k \in 2..Len(f.lines) : ~f.lines[k].ok

FilePath(i) == PathJoin(fs[i].root, fs[i].name)
Reported(i) == \E k \in 1..Len(out) : out[k] = FilePath(i)

\* the rows of the files named n that are selected, clean and resolved
CleanRows(n) ==
    UNION {{<<i, k>> : k \in RowsIn(fs[i])} :
              i \in {j \in 1..Len(fs) :
                        /\ fs[j].name = n
                        /\ Selected(fs[j]) /\ Clean(fs[j]) /\ Resolved(fs[j])}}

\* C7: load_prices lets no exception out; a file that fails is reported, a
\* file that does not is not, and every row of every file that does not fail
\* is in the catalog, once per call, wherever the failing files stand.
C7_FailuresStayLocal ==
    op = "load_prices" =>
        /\ ~raised
        /\ \A i \in 1..Len(fs) :
              /\ (Selected(fs[i]) /\ Failing(fs[i])) => Reported(i)
              /\ (~Selected(fs[i]) \/ Clean(fs[i])) => ~Reported(i)
        /\ \A i \in 1..Len(fs) :
              CountFile(fs[i].name) >= loads * Cardinality(CleanRows(fs[i].name))

\* C7 witness: a file that fails stands before a file of another name whose
\* rows are all in the catalog.
C7_FailingThenClean ==
    /\ op = "load_prices"
    /\ \E i, j \in 1..Len(fs) :
          /\ i < j
          /\ Selected(fs[i]) /\ Failing(fs[i]) /\ Reported(i)
          /\ fs[i].name # fs[j].name
          /\ Selected(fs[j]) /\ Clean(fs[j]) /\ Resolved(fs[j])
          /\ CountFile(fs[j].name) = loads * Cardinality(RowsIn(fs[j]))
          /\ RowsIn(fs[j]) # {}

\* C8: a file whose headers leave the product or the price role unmatched is
\* not reported and no record names it, whatever its lines hold; a file that
\* lacks only the weight column has every row in the catalog.
C8_UnresolvedFileIsEmpty ==
    op = "load_prices" =>
        /\ ~raised
        /\ \A i \in 1..Len(fs) :
              (Selected(fs[i]) /\ HeaderRead(fs[i]) /\ ~Resolved(fs[i]))
                  => ~Reported(i)
        /\ \A i \in 1..Len(fs) :
              (\A j \in 1..Len(fs) :
                   fs[j].name = fs[i].name =>
                       ~(Selected(fs[j]) /\ HeaderRead(fs[j]) /\ Resolved(fs[j])))
                  => CountFile(fs[i].name) = 0
        /\ \A i \in 1..Len(fs) :
              (/\ Selected(fs[i]) /\ HeaderRead(fs[i]) /\ Resolved(fs[i])
               /\ Matching(fs[i].lines[1].cells, weight_keywords) = {}
               /\ \A k \in 1..Len(fs[i].lines) : fs[i].lines[k].ok)
                  => /\ ~Reported(i)
                     /\ CountFile(fs[i].name) >= loads * Cardinality(RowsIn(fs[i]))

\* C8 witness: a file with rows but no product column has left no record, and
\* a file without weight column has its rows in the catalog.
C8_NoProductColumnLoaded ==
    /\ op = "load_prices"
    /\ \E i, j \in 1..Len(fs) :
          /\ Selected(fs[i]) /\ HeaderRead(fs[i])
          /\ Matching(fs[i].lines[1].cells, product_keywords) = {}
          /\ Matching(fs[i].lines[1].cells, price_keywords) # {}
          /\ RowsIn(fs[i]) # {}
          /\ CountFile(fs[i].name) = 0
          /\ Selected(fs[j]) /\ HeaderRead(fs[j]) /\ Resolved(fs[j])
          /\ Matching(fs[j].lines[1].cells, weight_keywords) = {}
          /\ CountFile(fs[j].name) > 0
=============================================================================
